---- MODULE Spec2Model ----
(***************************************************************************)
(* A model of the SLUB object allocator of slub_std: the page provider     *)
(* (Buddy), the per-class cache (SlubCache) with its three slab lists and  *)
(* in-slab freelists, the size-class dispatcher (SlubAllocator) with its   *)
(* large-object path, and the large-type path of SlubAllocator<ObjType>.   *)
(*                                                                         *)
(* Memory is a sparse map from the address of a 4-byte cell to its value;  *)
(* a cell that is absent holds 0 (alloc_pages zero-fills).  A pointer is   *)
(* stored in two cells, low word first; every address of the model fits    *)
(* the low word, so a stored pointer has a zero high word.                 *)
(***************************************************************************)
EXTENDS Integers, Sequences, FiniteSets

\* ------------------------------------------------------------- bounds
\* Page frames the provider can hand out: frames 1..NumFrames.
NumFrames == 3
\* Pointers the client holds at once.
MaxLive == 3
\* Pointers a client of the dispatcher holds at once.
MaxHeld == 2
\* Header images a client has stored that memory still holds.
MaxForged == 1
\* The largest size a single request of the dispatcher is drawn from.
MaxReq == 4200

\* ---------------------------------------------------------- constants
PAGE_SIZE == 4096
PAGES_PER_SLAB == 1
SLAB_BYTES == PAGE_SIZE * PAGES_PER_SLAB
ALIGN == 16
kMax == 2048
kNum == 9
\* sizeof(void *) and alignof(void *) of the 64-bit build.
PtrSize == 8
PtrAlign == 8
\* sizeof(SlabHeader): prev, next, freelist, inuse, total, state (padded),
\* owner_cache.
SlabHeaderSize == 56
\* BigAllocatorHeader{uint32 magic; uint32 pages; void *raw_base}.
BigHeaderSize == 16
MAGIC == 305419896
NULL == 0

VARIABLES
    caches,   \* cache index -> SlubCache (sizes and the three lists)
    slabs,    \* slab base address -> SlabHeader fields
    mem,      \* sparse memory: cell address -> non-zero value
    blocks,   \* provider blocks outstanding: set of [base, pages]
    live,     \* pointers the client holds: ptr -> [n, cnt]
    last,     \* the last call and what it returned
    fault     \* "none", or how the process died

vars == <<caches, slabs, mem, blocks, live, last, fault>>

\* ------------------------------------------------------------ helpers
Max(a, b) == IF a > b THEN a ELSE b

\* x & ~m on non-negative integers, bit by bit.
RECURSIVE AndNot(_, _)
AndNot(x, m) ==
    IF x = 0 THEN 0
    ELSE (IF x % 2 = 1 /\ m % 2 = 0 THEN 1 ELSE 0)
         + 2 * AndNot(x \div 2, m \div 2)

align_down(addr, align) == AndNot(addr, align - 1)

align_up(addr, align) == AndNot(addr + align - 1, align - 1)

\* --------------------------------------------------------------- memory
Read(m, a) == IF a \in DOMAIN m THEN m[a] ELSE 0

Write(m, a, v) ==
    IF v = 0
    THEN [x \in DOMAIN m \ {a} |-> m[x]]
    ELSE [x \in DOMAIN m \cup {a} |-> IF x = a THEN v ELSE m[x]]

\* A pointer-sized store and load (low word, then high word).
WritePtr(m, a, p) == Write(Write(m, a, p), a + 4, 0)

ReadPtr(m, a) == [lo |-> Read(m, a), hi |-> Read(m, a + 4)]

\* memset(ptr, 0, bytes)
ZeroRange(m, base, bytes) ==
    [x \in {a \in DOMAIN m : a < base \/ a >= base + bytes} |-> m[x]]

\* ------------------------------------------------------ intrusive list
ListEmpty(l) == l = <<>>

ListBack(l) == l[Len(l)]

ListPushBack(l, x) == Append(l, x)

ListErase(l, x) == SelectSeq(l, LAMBDA y : y # x)

InList(l, x) == \E i \in 1..Len(l) : l[i] = x

\* -------------------------------------------------------- page provider
\* Buddy::alloc_pages: aligned_alloc(bytes, bytes), so the block is aligned
\* to its own size and overlaps no outstanding block.
Overlaps(b, base, bytes) ==
    /\ b.base < base + bytes
    /\ base < b.base + b.pages * PAGE_SIZE

FreeBases(bl, pages) ==
    {a \in {f * PAGE_SIZE : f \in 1..NumFrames} :
        /\ a % (pages * PAGE_SIZE) = 0
        /\ a + pages * PAGE_SIZE <= (NumFrames + 1) * PAGE_SIZE
        /\ \A b \in bl : ~Overlaps(b, a, pages * PAGE_SIZE)}

\* ------------------------------------------------------------ SlubCache
\* SlubCache::SlubCache(obj_size, obj_align, pages_per_slab)
SlubCache(raw_size, raw_align, pages_per_slab) ==
    [obj_size   |-> Max(raw_size, PtrSize),
     obj_align  |-> Max(raw_align, PtrAlign),
     pages      |-> pages_per_slab,
     slab_bytes |-> pages_per_slab * PAGE_SIZE,
     partial    |-> <<>>,
     full       |-> <<>>,
     empty      |-> <<>>]

slab_of(p) == align_down(p, SLAB_BYTES)

\* The first slot of a slab: the header, padded to the object alignment.
FirstSlot(c, base) == align_up(base + SlabHeaderSize, c.obj_align)

\* size_t total = 0; while (p + obj_size <= end) { total++; p += obj_size; }
CountSlotsOver(cur, end, size, slab_bytes) ==
    Cardinality({k \in 1..(slab_bytes \div size + 1) :
                    cur + (k - 1) * size <= end})

\* The loop stops at the first k with cur + k * obj_size > end.
CountSlots(cur, end, size, slab_bytes) ==
    Cardinality({k \in 1..(slab_bytes \div size + 1) : cur + k * size <= end})

\* for (i = 0; i < total; i++) { *obj = head; head = obj; }
\* Slot 0 is linked to null and slot i to slot i - 1; head ends at the last.
LinkSlots(m, cur, size, total) ==
    LET lows  == {cur + i * size : i \in 0..(total - 1)}
        highs == {a + 4 : a \in lows}
        kept  == DOMAIN m \ (highs \cup {cur})
    IN  [mem  |-> [x \in kept \cup (lows \ {cur}) |->
                      IF x \in lows THEN x - size ELSE m[x]],
         head |-> IF total = 0 THEN NULL ELSE cur + (total - 1) * size]

\* SlubCache::init_slab_headers on the zeroed header at base.
init_slab_headers(c, id, m, base) ==
    LET cur   == FirstSlot(c, base)
        total == CountSlots(cur, base + c.slab_bytes, c.obj_size, c.slab_bytes)
        built == LinkSlots(m, cur, c.obj_size, total)
    IN  [mem |-> built.mem,
         hdr |-> [freelist    |-> built.head,
                  inuse       |-> 0,
                  total       |-> total,
                  state       |-> "EMPTY",
                  owner_cache |-> id]]

\* SlubCache::new_slab: the header alloc_pages' block is given.  The block
\* is zeroed by alloc_pages before the header is built.
new_slab(c, id, m, base) ==
    init_slab_headers(c, id, ZeroRange(m, base, c.pages * PAGE_SIZE), base)

\* The three list moves.  Each returns the cache and the headers after it.
to_emptyKeep(c, hs, s) ==
    [cache |-> [c EXCEPT !.empty = ListPushBack(@, s)],
     slabs |-> [hs EXCEPT ![s].state = "EMPTY"]]

to_emptyRelease(c, hs, s) ==
    LET c1 == IF hs[s].state = "PARTIAL"
              THEN [c EXCEPT !.partial = ListErase(@, s)]
              ELSE IF hs[s].state = "FULL"
              THEN [c EXCEPT !.full = ListErase(@, s)]
              ELSE c
    IN  [cache |-> c1,
         slabs |-> [b \in DOMAIN hs \ {s} |-> hs[b]]]

to_empty(c, hs, s) ==
    LET c1 == IF hs[s].state = "PARTIAL"
              THEN [c EXCEPT !.partial = ListErase(@, s)]
              ELSE IF hs[s].state = "FULL"
              THEN [c EXCEPT !.full = ListErase(@, s)]
              ELSE c
    IN  [cache |-> [c1 EXCEPT !.empty = ListPushBack(@, s)],
         slabs |-> [hs EXCEPT ![s].state = "EMPTY"]]

to_partialFront(c, hs, s) ==
    LET c1 == IF hs[s].state = "EMPTY"
              THEN [c EXCEPT !.empty = ListErase(@, s)]
              ELSE IF hs[s].state = "FULL"
              THEN [c EXCEPT !.full = ListErase(@, s)]
              ELSE c
    IN  [cache |-> [c1 EXCEPT !.partial = <<s>> \o @],
         slabs |-> [hs EXCEPT ![s].state = "PARTIAL"]]

to_partial(c, hs, s) ==
    LET c1 == IF hs[s].state = "EMPTY"
              THEN [c EXCEPT !.empty = ListErase(@, s)]
              ELSE IF hs[s].state = "FULL"
              THEN [c EXCEPT !.full = ListErase(@, s)]
              ELSE c
    IN  [cache |-> [c1 EXCEPT !.partial = ListPushBack(@, s)],
         slabs |-> [hs EXCEPT ![s].state = "PARTIAL"]]

to_full(c, hs, s) ==
    LET c1 == IF hs[s].state = "PARTIAL"
              THEN [c EXCEPT !.partial = ListErase(@, s)]
              ELSE IF hs[s].state = "EMPTY"
              THEN [c EXCEPT !.empty = ListErase(@, s)]
              ELSE c
    IN  [cache |-> [c1 EXCEPT !.full = ListPushBack(@, s)],
         slabs |-> [hs EXCEPT ![s].state = "FULL"]]

\* alloc: the slab a non-empty list donates (partial.back(), empty.back()).
DonorFront(l) == l[1]

DonorOf(l) == ListBack(l)

\* alloc: slab->freelist = *reinterpret_cast<void **>(obj)
NextFreeStuck(m, obj) == obj

NextFree(m, obj) == ReadPtr(m, obj).lo

\* alloc: if (slab->inuse == slab->total) to_full(slab)
AllocMoveNever(c, hs, s) == [cache |-> c, slabs |-> hs]

AllocMove(c, hs, s) ==
    IF hs[s].inuse = hs[s].total
    THEN to_full(c, hs, s)
    ELSE [cache |-> c, slabs |-> hs]

\* free: the list move after inuse--.
FreeMoveNoEmpty(c, hs, s) ==
    IF hs[s].inuse = hs[s].total - 1
    THEN to_partial(c, hs, s)
    ELSE [cache |-> c, slabs |-> hs]

FreeMove(c, hs, s) ==
    IF hs[s].inuse = 0
    THEN to_empty(c, hs, s)
    ELSE IF hs[s].inuse = hs[s].total - 1
    THEN to_partial(c, hs, s)
    ELSE [cache |-> c, slabs |-> hs]

\* free: slab_header->inuse--
DecInuseTwice(x) == x - 2

DecInuse(x) == x - 1

\* The outcome of a call: the state it leaves and what it returns.
Outcome(c, hs, m, bl, ret, flt, pc) ==
    [cache |-> c, slabs |-> hs, mem |-> m, blocks |-> bl,
     ret |-> ret, fault |-> flt, pcall |-> pc]

NoCall == [call |-> "none", ptr |-> NULL, pages |-> 0]

\* SlubCache::alloc from the chosen slab s on: the two assertions, the pop,
\* inuse++ and the move to the full list.
alloc_pop(c, hs, m, bl, s, pc) ==
    IF hs[s].freelist = NULL
    THEN Outcome(c, hs, m, bl, NULL, "assert", pc)
    ELSE LET obj == hs[s].freelist
             hs1 == [hs EXCEPT ![s].freelist = NextFree(m, obj),
                               ![s].inuse = @ + 1]
             mv  == AllocMove(c, hs1, s)
         IN  Outcome(mv.cache, mv.slabs, m, bl, obj, "none", pc)

\* SlubCache::alloc with the empty list asked before the partial list.
cache_allocEmptyFirst(c, id, hs, m, bl, got) ==
    IF ~ListEmpty(c.empty)
    THEN LET s  == DonorOf(c.empty)
             mv == to_partial(c, hs, s)
         IN  alloc_pop(mv.cache, mv.slabs, m, bl, s, NoCall)
    ELSE IF ~ListEmpty(c.partial)
    THEN alloc_pop(c, hs, m, bl, DonorOf(c.partial), NoCall)
    ELSE LET pc == [call |-> "alloc_pages", ptr |-> got, pages |-> c.pages]
         IN  IF got = NULL
             THEN Outcome(c, hs, m, bl, NULL, "segv", pc)
             ELSE LET ns  == new_slab(c, id, m, got)
                      hs1 == [b \in DOMAIN hs \cup {got} |->
                                 IF b = got
                                 THEN [ns.hdr EXCEPT !.state = "PARTIAL"]
                                 ELSE hs[b]]
                      c1  == [c EXCEPT !.partial = ListPushBack(@, got)]
                      bl1 == bl \cup {[base |-> got, pages |-> c.pages]}
                  IN  alloc_pop(c1, hs1, ns.mem, bl1, got, pc)

\* SlubCache::alloc of cache c (index id); got is what alloc_pages returns
\* if the call reaches new_slab.  A null block is written through by the
\* placement new of the header: the process dies there.
cache_alloc(c, id, hs, m, bl, got) ==
    IF ~ListEmpty(c.partial)
    THEN alloc_pop(c, hs, m, bl, DonorOf(c.partial), NoCall)
    ELSE IF ~ListEmpty(c.empty)
    THEN LET s  == DonorOf(c.empty)
             mv == to_partial(c, hs, s)
         IN  alloc_pop(mv.cache, mv.slabs, m, bl, s, NoCall)
    ELSE LET pc == [call |-> "alloc_pages", ptr |-> got, pages |-> c.pages]
         IN  IF got = NULL
             THEN Outcome(c, hs, m, bl, NULL, "segv", pc)
             ELSE LET ns  == new_slab(c, id, m, got)
                      hs1 == [b \in DOMAIN hs \cup {got} |->
                                 IF b = got
                                 THEN [ns.hdr EXCEPT !.state = "PARTIAL"]
                                 ELSE hs[b]]
                      c1  == [c EXCEPT !.partial = ListPushBack(@, got)]
                      bl1 == bl \cup {[base |-> got, pages |-> c.pages]}
                  IN  alloc_pop(c1, hs1, ns.mem, bl1, got, pc)

\* Whether SlubCache::alloc of c reaches new_slab (and so the provider).
NeedsSlab(c) == ListEmpty(c.partial) /\ ListEmpty(c.empty)

\* free: slab_header->freelist = p (old is the head before the call).
FreeHeadKeep(p, old) == IF old = NULL THEN p ELSE old

FreeHead(p, old) == p

\* SlubCache::free(p), p not null.
cache_free(c, hs, m, bl, p) ==
    LET s   == slab_of(p)
        m1  == WritePtr(m, p, hs[s].freelist)
        hs1 == [hs EXCEPT ![s].freelist = FreeHead(p, @),
                          ![s].inuse = DecInuse(@)]
        mv  == FreeMove(c, hs1, s)
    IN  Outcome(mv.cache, mv.slabs, m1, bl, NULL, "none", NoCall)

\* SlubCache::free(p), p not null, for any slab size: the set of outcomes.
\* slab_of rounds p down to SLAB_BYTES; when no SlabHeader was constructed
\* there, the freelist, inuse, total and state the code reads and writes are
\* bytes of a slot, and the list move works on a node no list holds: the
\* process dies or goes on with its memory damaged.
cache_free_any(c, hs, m, bl, p) ==
    IF slab_of(p) \in DOMAIN hs
    THEN {cache_free(c, hs, m, bl, p)}
    ELSE {Outcome(c, hs, m, bl, NULL, "segv", NoCall),
          Outcome(c, hs, m, bl, NULL, "heap corrupted", NoCall)}

\* ------------------------------------------------- what the client sees
RECURSIVE SumInuse(_, _)
SumInuse(hs, S) ==
    IF S = {} THEN 0
    ELSE LET b == CHOOSE x \in S : TRUE
         IN  hs[b].inuse + SumInuse(hs, S \ {b})

OwnedBy(hs, id) == {b \in DOMAIN hs : hs[b].owner_cache = id}

\* The statistics a cache exposes: slabs per list, slabs owned, objects in use.
Stats(c, id, hs) ==
    [empty   |-> Len(c.empty),
     partial |-> Len(c.partial),
     full    |-> Len(c.full),
     slabs   |-> Cardinality(OwnedBy(hs, id)),
     inuse   |-> SumInuse(hs, OwnedBy(hs, id))]

NoStats == [empty |-> 0, partial |-> 0, full |-> 0, slabs |-> 0, inuse |-> 0]

RECURSIVE SumCnt(_, _)
SumCnt(lv, S) ==
    IF S = {} THEN 0
    ELSE LET p == CHOOSE x \in S : TRUE
         IN  lv[p].cnt + SumCnt(lv, S \ {p})

LiveCount == SumCnt(live, DOMAIN live)

\* The client keeps the pointer a call returned / gives up one it frees.
Hold(lv, p, n) ==
    [q \in DOMAIN lv \cup {p} |->
        IF q = p
        THEN [n |-> n, cnt |-> IF p \in DOMAIN lv THEN lv[p].cnt + 1 ELSE 1]
        ELSE lv[q]]

Drop(lv, p) ==
    IF lv[p].cnt > 1
    THEN [lv EXCEPT ![p].cnt = @ - 1]
    ELSE [q \in DOMAIN lv \ {p} |-> lv[q]]

\* The record of a call.  seq counts the calls of an alloc / free of that
\* pointer / alloc run: 1 after an alloc, 2 after the free of the pointer the
\* alloc just before returned, 3 after the alloc that follows such a free;
\* p0 is the pointer the run started with, pre the statistics before it.
AfterAlloc(n, id, o, st) ==
    LET again == last.op = "free" /\ last.seq = 2
    IN  [op |-> "alloc", ptr |-> o.ret, n |-> n, cache |-> id,
         pre |-> st, seq |-> IF again THEN 3 ELSE 1,
         p0 |-> IF again THEN last.p0 ELSE o.ret, pcall |-> o.pcall]

AfterFree(p, id, o) ==
    LET pair == last.op = "alloc" /\ last.ptr = p
    IN  [op |-> "free", ptr |-> p, n |-> live[p].n, cache |-> id,
         pre |-> IF pair THEN last.pre ELSE NoStats,
         seq |-> IF pair THEN 2 ELSE 0,
         p0 |-> IF pair THEN p ELSE NULL, pcall |-> o.pcall]

NoLast ==
    [op |-> "init", ptr |-> NULL, n |-> 0, cache |-> 0, pre |-> NoStats,
     seq |-> 0, p0 |-> NULL, pcall |-> NoCall]

\* ------------------------------------------- specification: one SlubCache
\* The (object size, alignment) pairs a cache is constructed from: one slot
\* per slab (test 3), two slots, two slots of a size that is no multiple of
\* the alignment, three slots (the dispatcher's 1024 class), the stress
\* test's cache, and a size that leaves no slot at all.
CacheCfgs ==
    {<<2048, 8>>, <<2000, 8>>, <<1368, 16>>, <<1024, 1024>>, <<64, 8>>,
     <<4096, 8>>}

Init ==
    /\ \E cfg \in CacheCfgs :
          caches = [i \in {0} |-> SlubCache(cfg[1], cfg[2], PAGES_PER_SLAB)]
    /\ slabs = <<>>
    /\ mem = <<>>
    /\ blocks = {}
    /\ live = <<>>
    /\ last = NoLast
    /\ fault = "none"

\* What alloc_pages may return to a call of cache c: a free aligned block,
\* or null.
Provided(c) ==
    IF NeedsSlab(c) THEN FreeBases(blocks, c.pages) \cup {NULL} ELSE {NULL}

\* void *p = cache.alloc();
CacheAlloc ==
    /\ fault = "none"
    /\ LiveCount < MaxLive
    /\ \E got \in Provided(caches[0]) :
          LET o == cache_alloc(caches[0], 0, slabs, mem, blocks, got)
          IN  /\ caches' = [caches EXCEPT ![0] = o.cache]
              /\ slabs' = o.slabs
              /\ mem' = o.mem
              /\ blocks' = o.blocks
              /\ fault' = o.fault
              /\ last' = AfterAlloc(caches[0].obj_size, 0, o,
                                    Stats(caches[0], 0, slabs))
              /\ live' = IF o.fault = "none"
                         THEN Hold(live, o.ret, caches[0].obj_size)
                         ELSE live

\* cache.free(p) of a pointer the client holds.
CacheFree ==
    /\ fault = "none"
    /\ \E p \in DOMAIN live :
          LET o == cache_free(caches[0], slabs, mem, blocks, p)
          IN  /\ caches' = [caches EXCEPT ![0] = o.cache]
              /\ slabs' = o.slabs
              /\ mem' = o.mem
              /\ blocks' = o.blocks
              /\ fault' = o.fault
              /\ last' = AfterFree(p, 0, o)
              /\ live' = Drop(live, p)

Next == CacheAlloc \/ CacheFree

Spec == Init /\ [][Next]_vars

\* ------------------- specification: one SlubCache, slabs of 1 or 2 pages
\* (object size, alignment, pages_per_slab)
PagesCfgs == {<<1024, 1024, 1>>, <<2048, 8, 2>>, <<1024, 1024, 2>>}

InitPages ==
    /\ \E cfg \in PagesCfgs :
          caches = [i \in {0} |-> SlubCache(cfg[1], cfg[2], cfg[3])]
    /\ slabs = <<>>
    /\ mem = <<>>
    /\ blocks = {}
    /\ live = <<>>
    /\ last = NoLast
    /\ fault = "none"

\* cache.free(p) of a pointer the client holds.
PagesFree ==
    /\ fault = "none"
    /\ \E p \in DOMAIN live :
          \E o \in cache_free_any(caches[0], slabs, mem, blocks, p) :
             /\ caches' = [caches EXCEPT ![0] = o.cache]
             /\ slabs' = o.slabs
             /\ mem' = o.mem
             /\ blocks' = o.blocks
             /\ fault' = o.fault
             /\ last' = AfterFree(p, 0, o)
             /\ live' = Drop(live, p)

NextPages == CacheAlloc \/ PagesFree

SpecPages == InitPages /\ [][NextPages]_vars

\* -------------------------------------------------------- SlubAllocator
\* class_index: n = max(n, 8); x = 8; i = 0; while (x < n) { x <<= 1; i++; }
RECURSIVE ClassLoop(_, _, _)
ClassLoop(x, i, n) == IF x < n THEN ClassLoop(2 * x, i + 1, n) ELSE i

RECURSIVE ClassLoopFloor(_, _, _)
ClassLoopFloor(x, i, n) ==
    IF 2 * x <= n THEN ClassLoopFloor(2 * x, i + 1, n) ELSE i

class_indexFloor(n) == ClassLoopFloor(8, 0, Max(n, 8))

class_index(n) == ClassLoop(8, 0, Max(n, 8))

RECURSIVE Pow2(_)
Pow2(i) == IF i = 0 THEN 1 ELSE 2 * Pow2(i - 1)

\* SlubAllocator::SlubAllocator: SlubCache(8, 8) ... SlubCache(2048, 2048)
AllocatorCaches ==
    [i \in 0..(kNum - 1) |->
        SlubCache(8 * Pow2(i), 8 * Pow2(i), PAGES_PER_SLAB)]

\* alloc, large path: pages = (n + overhead + PAGE_SIZE - 1) / PAGE_SIZE
BigPages(n) ==
    (n + (BigHeaderSize + ALIGN - 1) + PAGE_SIZE - 1) \div PAGE_SIZE

\* alloc, large path: hdr->magic = MAGIC; hdr->pages = pages;
\* hdr->raw_base = base.
WriteBigHeaderNoBase(m, hdr, pages, base) ==
    WritePtr(Write(Write(m, hdr, MAGIC), hdr + 4, pages), hdr + 8, NULL)

WriteBigHeader(m, hdr, pages, base) ==
    WritePtr(Write(Write(m, hdr, MAGIC), hdr + 4, pages), hdr + 8, base)

\* alloc, large path, on the block alloc_pages returned (zeroed).  The header
\* is written through whatever alloc_pages returned: a null block gives the
\* header address 0 and the process dies on the store.
big_alloc_pages(hs, m, bl, pages, got) ==
    LET pc    == [call |-> "alloc_pages", ptr |-> got, pages |-> pages]
        user  == align_up(got + BigHeaderSize, ALIGN)
        hdr   == user - BigHeaderSize
        m0    == ZeroRange(m, got, pages * PAGE_SIZE)
        m1    == WriteBigHeader(m0, hdr, pages, got)
    IN  IF got = NULL
        THEN [slabs |-> hs, mem |-> m, blocks |-> bl, ret |-> NULL,
              fault |-> "segv", pcall |-> pc]
        ELSE [slabs |-> hs, mem |-> m1,
              blocks |-> bl \cup {[base |-> got, pages |-> pages]},
              ret |-> user, fault |-> "none", pcall |-> pc]

big_alloc(hs, m, bl, n, got) == big_alloc_pages(hs, m, bl, BigPages(n), got)

\* Buddy::free_pages(ptr, pages) is std::free(ptr).  A pointer that is the
\* base of no outstanding block is an invalid free: the C library aborts, or
\* its heap is silently corrupted.
free_pagesLeak(bl, ptr) ==
    IF ptr.hi = 0 /\ \E b \in bl : b.base = ptr.lo
    THEN {[blocks |-> bl, fault |-> "none"]}
    ELSE {[blocks |-> bl, fault |-> "abort"],
          [blocks |-> bl, fault |-> "heap corrupted"]}

free_pages(bl, ptr) ==
    IF ptr.hi = 0 /\ \E b \in bl : b.base = ptr.lo
    THEN {[blocks |-> {b \in bl : b.base # ptr.lo}, fault |-> "none"]}
    ELSE {[blocks |-> bl, fault |-> "abort"],
          [blocks |-> bl, fault |-> "heap corrupted"]}

\* free(ptr): whether the word at ptr - sizeof(BigAllocatorHeader) is MAGIC.
\* For the first slot of a slab that word lies in the SlabHeader or its
\* padding (state, owner_cache), whose cells are not kept in mem: it reads 0.
LooksBig(m, ptr) == Read(m, ptr - BigHeaderSize) = MAGIC

\* free(ptr): SlubCache *cache = slab_of(ptr)->owner_cache
OwnerOfFirst(hs, ptr) == 0

OwnerOf(hs, ptr) == hs[slab_of(ptr)].owner_cache

\* SlubAllocator::free(void *ptr), ptr not null: the set of outcomes.
alloc_free(cs, hs, m, bl, ptr) ==
    LET hdr   == ptr - BigHeaderSize
        pages == Read(m, hdr + 4)
        raw   == ReadPtr(m, hdr + 8)
        pc    == [call |-> "free_pages", ptr |-> raw.lo, pages |-> pages]
    IN  IF LooksBig(m, ptr)
        THEN IF (raw.lo = NULL /\ raw.hi = 0) \/ pages = 0
             THEN {[caches |-> cs, slabs |-> hs, mem |-> m, blocks |-> bl,
                    fault |-> "assert", pcall |-> NoCall]}
             ELSE {[caches |-> cs, slabs |-> hs, mem |-> m,
                    blocks |-> r.blocks, fault |-> r.fault, pcall |-> pc] :
                   r \in free_pages(bl, raw)}
        ELSE LET id == OwnerOf(hs, ptr)
                 o  == cache_free(cs[id], hs, m, bl, ptr)
             IN  {[caches |-> [cs EXCEPT ![id] = o.cache], slabs |-> o.slabs,
                   mem |-> o.mem, blocks |-> bl, fault |-> "none",
                   pcall |-> NoCall]}

\* SlubAllocator::free(void *ptr, size_t size), ptr not null: the set of
\* outcomes.  The large branch passes ptr and size on to free_pages as they
\* came.
alloc_free_sized(cs, hs, m, bl, ptr, size) ==
    IF size > kMax
    THEN {[caches |-> cs, slabs |-> hs, mem |-> m, blocks |-> r.blocks,
           fault |-> r.fault,
           pcall |-> [call |-> "free_pages", ptr |-> ptr, pages |-> size]] :
          r \in free_pages(bl, [lo |-> ptr, hi |-> 0])}
    ELSE LET id == class_index(size)
             o  == cache_free(cs[id], hs, m, bl, ptr)
         IN  {[caches |-> [cs EXCEPT ![id] = o.cache], slabs |-> o.slabs,
               mem |-> o.mem, blocks |-> bl, fault |-> "none",
               pcall |-> NoCall]}

\* The three entry points with their test of the pointer:
\* if (!p) { printf(...); return; }
SlubCache_freeNoCheck(c, hs, m, bl, p) ==
    IF p = NULL
    THEN Outcome(c, hs, m, bl, NULL, "segv", NoCall)
    ELSE cache_free(c, hs, m, bl, p)

SlubCache_free(c, hs, m, bl, p) ==
    IF p = NULL
    THEN Outcome(c, hs, m, bl, NULL, "none", NoCall)
    ELSE cache_free(c, hs, m, bl, p)

Untouched(cs, hs, m, bl) ==
    [caches |-> cs, slabs |-> hs, mem |-> m, blocks |-> bl,
     fault |-> "none", pcall |-> NoCall]

SlubAllocator_free(cs, hs, m, bl, ptr) ==
    IF ptr = NULL
    THEN {Untouched(cs, hs, m, bl)}
    ELSE alloc_free(cs, hs, m, bl, ptr)

SlubAllocator_free_sized(cs, hs, m, bl, ptr, size) ==
    IF ptr = NULL
    THEN {Untouched(cs, hs, m, bl)}
    ELSE alloc_free_sized(cs, hs, m, bl, ptr, size)

\* ----------------------------------------- specification: SlubAllocator
\* The sizes a client asks for: both ends of the small range, sizes that
\* fill their class (1024: three slots, 2048: one slot), a size inside a
\* class, and large requests of one and of two pages.
ReqSizes == {1024, 2048, 2049, 4096}

InitAlloc ==
    /\ caches = AllocatorCaches
    /\ slabs = <<>>
    /\ mem = <<>>
    /\ blocks = {}
    /\ live = <<>>
    /\ last = NoLast
    /\ fault = "none"

\* void *p = allocator.alloc(n);
DAllocOf(n) ==
    /\ fault = "none"
    /\ LiveCount < MaxHeld
    /\ IF n > kMax
       THEN \E got \in FreeBases(blocks, BigPages(n)) \cup {NULL} :
               LET o == big_alloc(slabs, mem, blocks, n, got)
               IN  /\ caches' = caches
                   /\ slabs' = o.slabs
                   /\ mem' = o.mem
                   /\ blocks' = o.blocks
                   /\ fault' = o.fault
                   /\ last' = AfterAlloc(n, kNum, o, NoStats)
                   /\ live' = IF o.fault = "none"
                              THEN Hold(live, o.ret, n)
                              ELSE live
       ELSE LET id == class_index(n)
            IN  \E got \in Provided(caches[id]) :
                   LET o == cache_alloc(caches[id], id, slabs, mem, blocks,
                                        got)
                   IN  /\ caches' = [caches EXCEPT ![id] = o.cache]
                       /\ slabs' = o.slabs
                       /\ mem' = o.mem
                       /\ blocks' = o.blocks
                       /\ fault' = o.fault
                       /\ last' = AfterAlloc(n, id, o,
                                             Stats(caches[id], id, slabs))
                       /\ live' = IF o.fault = "none"
                                  THEN Hold(live, o.ret, n)
                                  ELSE live

DAlloc == \E n \in ReqSizes : DAllocOf(n)

\* allocator.free(p) of a pointer the client holds.
DFree ==
    /\ fault = "none"
    /\ \E p \in DOMAIN live :
          \E o \in alloc_free(caches, slabs, mem, blocks, p) :
             /\ caches' = o.caches
             /\ slabs' = o.slabs
             /\ mem' = o.mem
             /\ blocks' = o.blocks
             /\ fault' = o.fault
             /\ last' = AfterFree(p, kNum, o)
             /\ live' = Drop(live, p)

\* The header images in memory that no large alloc wrote (a large alloc's
\* header holds its own address as raw_base).
Forged(m) == {a \in DOMAIN m : m[a] = MAGIC /\ Read(m, a + 8) # a}

\* The client stores 16 bytes at the end of an object it holds, of the n
\* bytes it asked for: the words MAGIC, 1 and a pointer.
ClientWrite ==
    /\ fault = "none"
    /\ Cardinality(Forged(mem)) < MaxForged
    /\ \E p \in DOMAIN live : \E rb \in {NULL, p} :
          LET n == live[p].n
              a == p + n - BigHeaderSize
          IN  /\ n >= BigHeaderSize
              /\ n % 4 = 0
              /\ mem' = WritePtr(Write(Write(mem, a, MAGIC), a + 4, 1),
                                 a + 8, rb)
              /\ mem' # mem
    /\ UNCHANGED <<caches, slabs, blocks, live, last, fault>>

NextAlloc == DAlloc \/ DFree \/ ClientWrite

SpecAlloc == InitAlloc /\ [][NextAlloc]_vars

\* ------------------------- specification: one request to a new allocator
\* void *p = allocator.alloc(n) for any n, on an allocator just constructed.
DAllocFirst ==
    /\ last.op = "init"
    /\ \E n \in 0..MaxReq : DAllocOf(n)

NextDispatch == DAllocFirst \/ DFree

SpecDispatch == InitAlloc /\ [][NextDispatch]_vars

\* -------------------- specification: a client that frees in every way
\* The sizes asked for: the last small class (one slot per slab) and large
\* requests of one and of two pages.
FreeSizes == {2048, 2052, 4068}

DAllocSome == \E n \in FreeSizes : DAllocOf(n)

\* allocator.free(p, n) of a pointer the client holds, n the size asked for.
DFreeSized ==
    /\ fault = "none"
    /\ \E p \in DOMAIN live :
          \E o \in SlubAllocator_free_sized(caches, slabs, mem, blocks, p,
                                            live[p].n) :
             /\ caches' = o.caches
             /\ slabs' = o.slabs
             /\ mem' = o.mem
             /\ blocks' = o.blocks
             /\ fault' = o.fault
             /\ last' = [AfterFree(p, kNum, o) EXCEPT !.op = "free_sized"]
             /\ live' = Drop(live, p)

NullCall(op, id, n) == [NoLast EXCEPT !.op = op, !.cache = id, !.n = n]

\* caches[id].free(nullptr)
CacheFreeNull ==
    /\ fault = "none"
    /\ \E id \in DOMAIN caches :
          LET o == SlubCache_free(caches[id], slabs, mem, blocks, NULL)
          IN  /\ caches' = [caches EXCEPT ![id] = o.cache]
              /\ slabs' = o.slabs
              /\ mem' = o.mem
              /\ blocks' = o.blocks
              /\ fault' = o.fault
              /\ last' = NullCall("cache_free_null", id, 0)
              /\ live' = live

\* allocator.free(nullptr)
DFreeNull ==
    /\ fault = "none"
    /\ \E o \in SlubAllocator_free(caches, slabs, mem, blocks, NULL) :
          /\ caches' = o.caches
          /\ slabs' = o.slabs
          /\ mem' = o.mem
          /\ blocks' = o.blocks
          /\ fault' = o.fault
          /\ last' = NullCall("free_null", kNum, 0)
          /\ live' = live

\* allocator.free(nullptr, n)
DFreeSizedNull ==
    /\ fault = "none"
    /\ \E n \in FreeSizes :
          \E o \in SlubAllocator_free_sized(caches, slabs, mem, blocks,
                                            NULL, n) :
             /\ caches' = o.caches
             /\ slabs' = o.slabs
             /\ mem' = o.mem
             /\ blocks' = o.blocks
             /\ fault' = o.fault
             /\ last' = NullCall("free_sized_null", kNum, n)
             /\ live' = live

NextFreeing ==
    \/ DAllocSome
    \/ DFree
    \/ DFreeSized
    \/ CacheFreeNull
    \/ DFreeNull
    \/ DFreeSizedNull

SpecFree == InitAlloc /\ [][NextFreeing]_vars

\* ------------------------------------------------ SlubAllocator<ObjType>
\* obj_align_ = max_const(raw_obj_align_, ptr_align_);
\* obj_size_ = round_up_pow2(max_const(raw_obj_size_, ptr_size_), obj_align_)
TypedAllocator(raw_size, raw_align) ==
    [obj_size   |-> AndNot(Max(raw_size, PtrSize)
                              + Max(raw_align, PtrAlign) - 1,
                           Max(raw_align, PtrAlign) - 1),
     obj_align  |-> Max(raw_align, PtrAlign),
     pages      |-> PAGES_PER_SLAB,
     slab_bytes |-> SLAB_BYTES,
     partial    |-> <<>>,
     full       |-> <<>>,
     empty      |-> <<>>]

\* alloc: size_t pages = (obj_size_ + PAGE_SIZE - 1) / PAGE_SIZE
TypedPagesOne(size) == 1

TypedPages(size) == (size + PAGE_SIZE - 1) \div PAGE_SIZE

\* SlubAllocator<ObjType>::alloc of a type with obj_size_ > kMax: what
\* alloc_pages returned (got, zeroed; possibly null) is returned as it is.
typed_alloc(c, hs, m, bl, got) ==
    LET pages == TypedPages(c.obj_size)
        pc    == [call |-> "alloc_pages", ptr |-> got, pages |-> pages]
    IN  IF got = NULL
        THEN Outcome(c, hs, m, bl, NULL, "none", pc)
        ELSE Outcome(c, hs, ZeroRange(m, got, pages * PAGE_SIZE),
                     bl \cup {[base |-> got, pages |-> pages]},
                     got, "none", pc)

\* SlubAllocator<ObjType>::free: the set of outcomes.  inner_free is the
\* code of SlubCache::free, with slab_of on slab_bytes_ = SLAB_BYTES.
typed_free(c, hs, m, bl, ptr) ==
    IF ptr = NULL
    THEN {Outcome(c, hs, m, bl, NULL, "none", NoCall)}
    ELSE IF c.obj_size > kMax
    THEN {Outcome(c, hs, m, r.blocks, NULL, r.fault,
                  [call |-> "free_pages", ptr |-> ptr, pages |-> 0]) :
          r \in free_pages(bl, [lo |-> ptr, hi |-> 0])}
    ELSE cache_free_any(c, hs, m, bl, ptr)

\* ------------ specification: SlubAllocator<ObjType>, sizeof(ObjType) large
\* (sizeof(ObjType), alignof(ObjType)): types of one and of two pages.
TypedCfgs == {<<3000, 8>>, <<2049, 1>>, <<4096, 16>>, <<5000, 8>>}

InitTyped ==
    /\ \E cfg \in TypedCfgs :
          caches = [i \in {0} |-> TypedAllocator(cfg[1], cfg[2])]
    /\ slabs = <<>>
    /\ mem = <<>>
    /\ blocks = {}
    /\ live = <<>>
    /\ last = NoLast
    /\ fault = "none"

\* void *p = allocator.alloc(); a null p is not kept.
TypedAlloc ==
    /\ fault = "none"
    /\ LiveCount < MaxLive
    /\ caches[0].obj_size > kMax
    /\ \E got \in FreeBases(blocks, TypedPages(caches[0].obj_size))
                      \cup {NULL} :
          LET o == typed_alloc(caches[0], slabs, mem, blocks, got)
          IN  /\ caches' = [caches EXCEPT ![0] = o.cache]
              /\ slabs' = o.slabs
              /\ mem' = o.mem
              /\ blocks' = o.blocks
              /\ fault' = o.fault
              /\ last' = AfterAlloc(caches[0].obj_size, 0, o, NoStats)
              /\ live' = IF o.ret # NULL
                         THEN Hold(live, o.ret, caches[0].obj_size)
                         ELSE live

\* allocator.free(p) of a pointer the client holds.
TypedFree ==
    /\ fault = "none"
    /\ \E p \in DOMAIN live :
          \E o \in typed_free(caches[0], slabs, mem, blocks, p) :
             /\ caches' = [caches EXCEPT ![0] = o.cache]
             /\ slabs' = o.slabs
             /\ mem' = o.mem
             /\ blocks' = o.blocks
             /\ fault' = o.fault
             /\ last' = AfterFree(p, 0, o)
             /\ live' = Drop(live, p)

NextTyped == TypedAlloc \/ TypedFree

SpecTyped == InitTyped /\ [][NextTyped]_vars

\* --------------------------- SlubAllocator<ObjType>, obj_size_ <= kMax
\* for (i = total; i > 0; i--) { obj = cur + i * obj_size_; *obj = head;
\* head = obj; }  The slots linked are cur + obj_size_ .. cur + total *
\* obj_size_: the last links to null, each other to the next, head ends at
\* cur + obj_size_.
TypedLinkSlots(m, cur, size, total) ==
    LET lows  == {cur + i * size : i \in 1..total}
        highs == {a + 4 : a \in lows}
        last_ == cur + total * size
        kept  == DOMAIN m \ (highs \cup {last_})
    IN  [mem  |-> [x \in kept \cup (lows \ {last_}) |->
                      IF x \in lows THEN x + size ELSE m[x]],
         head |-> IF total = 0 THEN NULL ELSE cur + size]

\* SlubAllocator<ObjType>::init_slab_headers on the zeroed header at base.
typed_init_slab_headers(c, m, base) ==
    LET cur   == FirstSlot(c, base)
        total == CountSlots(cur, base + c.slab_bytes, c.obj_size, c.slab_bytes)
        built == TypedLinkSlots(m, cur, c.obj_size, total)
    IN  [mem |-> built.mem,
         hdr |-> [freelist    |-> built.head,
                  inuse       |-> 0,
                  total       |-> total,
                  state       |-> "EMPTY",
                  owner_cache |-> 0]]

\* Whether the loop stores a link beyond the end of the slab at base.
LinkPastEnd(c, base) ==
    LET cur   == FirstSlot(c, base)
        total == CountSlots(cur, base + c.slab_bytes, c.obj_size, c.slab_bytes)
    IN  total > 0 /\ cur + total * c.obj_size + PtrSize > base + c.slab_bytes

\* SlubAllocator<ObjType>::alloc of a type with obj_size_ <= kMax; got is
\* what alloc_pages returns if the call reaches new_slab.  A store beyond
\* the slab either lands in the memory behind it (lands) or kills the
\* process.
typed_alloc_small(c, hs, m, bl, got, lands) ==
    IF ~ListEmpty(c.partial)
    THEN alloc_pop(c, hs, m, bl, DonorOf(c.partial), NoCall)
    ELSE IF ~ListEmpty(c.empty)
    THEN LET s  == DonorOf(c.empty)
             mv == to_partial(c, hs, s)
         IN  alloc_pop(mv.cache, mv.slabs, m, bl, s, NoCall)
    ELSE LET pc == [call |-> "alloc_pages", ptr |-> got, pages |-> c.pages]
         IN  IF got = NULL \/ (LinkPastEnd(c, got) /\ ~lands)
             THEN Outcome(c, hs, m, bl, NULL, "segv", pc)
             ELSE LET ns  == typed_init_slab_headers(
                                c, ZeroRange(m, got, c.pages * PAGE_SIZE),
                                got)
                      hs1 == [b \in DOMAIN hs \cup {got} |->
                                 IF b = got
                                 THEN [ns.hdr EXCEPT !.state = "PARTIAL"]
                                 ELSE hs[b]]
                      c1  == [c EXCEPT !.partial = ListPushBack(@, got)]
                      bl1 == bl \cup {[base |-> got, pages |-> c.pages]}
                  IN  alloc_pop(c1, hs1, ns.mem, bl1, got, pc)

\* ------------ specification: SlubAllocator<ObjType>, sizeof(ObjType) small
\* (sizeof(ObjType), alignof(ObjType)): one slot counted per slab, two, and
\* three with the slots aligned to their size.
TypedSmallCfgs == {<<2048, 8>>, <<1368, 8>>, <<1024, 1024>>, <<1000, 8>>}

InitTypedSmall ==
    /\ \E cfg \in TypedSmallCfgs :
          caches = [i \in {0} |-> TypedAllocator(cfg[1], cfg[2])]
    /\ slabs = <<>>
    /\ mem = <<>>
    /\ blocks = {}
    /\ live = <<>>
    /\ last = NoLast
    /\ fault = "none"

\* void *p = allocator.alloc();
TypedSmallAlloc ==
    /\ fault = "none"
    /\ LiveCount < MaxLive
    /\ caches[0].obj_size <= kMax
    /\ \E got \in Provided(caches[0]), lands \in BOOLEAN :
          LET o == typed_alloc_small(caches[0], slabs, mem, blocks, got,
                                     lands)
          IN  /\ caches' = [caches EXCEPT ![0] = o.cache]
              /\ slabs' = o.slabs
              /\ mem' = o.mem
              /\ blocks' = o.blocks
              /\ fault' = o.fault
              /\ last' = AfterAlloc(caches[0].obj_size, 0, o,
                                    Stats(caches[0], 0, slabs))
              /\ live' = IF o.fault = "none"
                         THEN Hold(live, o.ret, caches[0].obj_size)
                         ELSE live

NextTypedSmall == TypedSmallAlloc \/ TypedFree

SpecTypedSmall == InitTypedSmall /\ [][NextTypedSmall]_vars

\* ------------------ specification: a client of several size classes
\* The sizes asked for: inside the 1024 class (three slots per slab), the
\* 2048 class (one) and a large request of two pages.
ClassSizes == {1000, 2048, 4068}

DAllocClass == \E n \in ClassSizes : DAllocOf(n)

NextClasses == DAllocClass \/ DFree \/ DFreeSized

SpecClasses == InitAlloc /\ [][NextClasses]_vars

\* ------------------------------ specification: requests of any size_t
\* A size_t is four 16-bit limbs, the least significant first; a uint32_t
\* is two.
Limb == 65536

Wide(n) == <<n % Limb, n \div Limb, 0, 0>>

\* w + k for k < Limb, every carry kept: five limbs.
AddFull(w, k) ==
    LET s1 == w[1] + k
        s2 == w[2] + s1 \div Limb
        s3 == w[3] + s2 \div Limb
        s4 == w[4] + s3 \div Limb
    IN  <<s1 % Limb, s2 % Limb, s3 % Limb, s4 % Limb, s4 \div Limb>>

\* size_t + size_t: the carry out of bit 63 is lost.
AddWrap(w, k) == SubSeq(AddFull(w, k), 1, 4)

\* w / PAGE_SIZE, PAGE_SIZE = 2^12.
DivPage(w) ==
    [i \in 1..Len(w) |->
        (w[i] \div PAGE_SIZE)
          + (IF i < Len(w) THEN (w[i + 1] % PAGE_SIZE) * (Limb \div PAGE_SIZE)
                           ELSE 0)]

\* pages * PAGE_SIZE of a uint32_t page count, as alloc_pages computes it
\* in size_t: no bit is lost.
MulPage(pw) ==
    <<(pw[1] % (Limb \div PAGE_SIZE)) * PAGE_SIZE,
      (pw[1] \div (Limb \div PAGE_SIZE))
         + (pw[2] % (Limb \div PAGE_SIZE)) * PAGE_SIZE,
      pw[2] \div (Limb \div PAGE_SIZE), 0, 0>>

\* a <= b for two numbers of the same number of limbs.
WideLeq(a, b) ==
    \/ a = b
    \/ \E i \in 1..Len(a) :
          /\ a[i] < b[i]
          /\ \A j \in (i + 1)..Len(a) : a[j] = b[j]

\* alloc, large path: uint32_t pages = (n + overhead + PAGE_SIZE - 1) /
\* PAGE_SIZE.  The sum and the quotient are size_t; the initialisation
\* keeps the low 32 bits of the quotient.
BigPagesWide(w) ==
    SubSeq(DivPage(AddWrap(w, (BigHeaderSize + ALIGN - 1) + PAGE_SIZE - 1)),
           1, 2)

\* The request sizes: 2049 and 4068 (one and two pages), 2^32, 2^44,
\* 2^44 + 4068, 2^44 - 4126, 2^64 - 4126 and 2^64 - 1.
WideSizes ==
    {w \in {Wide(2049), Wide(4068), <<0, 0, 1, 0>>, <<0, 0, 4096, 0>>,
            <<4068, 0, 4096, 0>>, <<61410, 65535, 4095, 0>>,
            <<61410, 65535, 65535, 65535>>,
            <<65535, 65535, 65535, 65535>>} :
        ~WideLeq(w, Wide(kMax))}

\* void *p = allocator.alloc(n), n > kMax.  alloc_pages(pages) is
\* aligned_alloc(bytes, bytes): null when the provider has no such block;
\* for 0 bytes null or a block of no usable size, whose first bytes the
\* header is then stored over.
WideAlloc ==
    /\ fault = "none"
    /\ LiveCount < MaxHeld
    /\ \E w \in WideSizes :
          LET pw    == BigPagesWide(w)
              fits  == pw[2] = 0 /\ pw[1] \in 1..NumFrames
              bases == IF fits THEN FreeBases(blocks, pw[1]) ELSE {}
          IN  IF pw = <<0, 0>>
              THEN /\ fault' \in {"segv", "heap corrupted"}
                   /\ last' = [NoLast EXCEPT
                                 !.op = "alloc", !.n = w, !.cache = kNum,
                                 !.seq = 1,
                                 !.pcall = [call |-> "alloc_pages",
                                            ptr |-> NULL, pages |-> pw]]
                   /\ UNCHANGED <<caches, slabs, mem, blocks, live>>
              ELSE \E got \in bases \cup {NULL} :
                      LET o == big_alloc_pages(slabs, mem, blocks, pw[1], got)
                      IN  /\ caches' = caches
                          /\ slabs' = o.slabs
                          /\ mem' = o.mem
                          /\ blocks' = o.blocks
                          /\ fault' = o.fault
                          /\ last' = [AfterAlloc(w, kNum, o, NoStats)
                                        EXCEPT !.pcall.pages = pw]
                          /\ live' = IF o.fault = "none"
                                     THEN Hold(live, o.ret, w)
                                     ELSE live

NextWide == WideAlloc \/ DFree

SpecWide == InitAlloc /\ [][NextWide]_vars

\* ======================================================= claims: SlubCache
c0 == caches[0]

\* The freelist chain from p on, read out of the slots; fuel bounds the walk.
RECURSIVE FreeChain(_, _, _)
FreeChain(m, p, fuel) ==
    IF p = NULL \/ fuel = 0 THEN <<>>
    ELSE <<p>> \o FreeChain(m, ReadPtr(m, p).lo, fuel - 1)

ChainOf(b) == FreeChain(mem, slabs[b].freelist, slabs[b].total + 1)

Disjoint(p, q, size) == p + size <= q \/ q + size <= p

\* C1: the client never holds a pointer twice (alloc returns none that is
\* live), and the obj_size-byte ranges of two live objects do not overlap.
C1_DistinctLive ==
    /\ \A p \in DOMAIN live : live[p].cnt = 1
    /\ \A p, q \in DOMAIN live : p # q => Disjoint(p, q, c0.obj_size)

\* An alloc that re-serves a freed slot while two more objects are live.
C1_Witness ==
    /\ last.op = "alloc" /\ last.seq = 3 /\ fault = "none"
    /\ Cardinality(DOMAIN live) >= 3
    /\ \E p, q \in DOMAIN live : p # q /\ slab_of(p) = slab_of(q)

\* C2: after every completed alloc or free, inuse plus the length of the
\* freelist chain is total, in every slab.
C2_InusePlusFree ==
    fault = "none" =>
        \A b \in DOMAIN slabs :
            slabs[b].inuse + Len(ChainOf(b)) = slabs[b].total

\* A free left a slab with objects in use and a chain of freed slots.
C2_Witness ==
    /\ last.op = "free" /\ fault = "none"
    /\ \E b \in DOMAIN slabs :
          /\ slabs[b].inuse > 0
          /\ Len(ChainOf(b)) > 1
          /\ ChainOf(b)[1] = last.ptr

Occurrences(l, x) == Cardinality({i \in 1..Len(l) : l[i] = x})

\* C3: after every completed alloc or free, every slab is linked exactly
\* once, in one list, and its state tag matches: EMPTY iff in the empty list
\* with inuse = 0, PARTIAL iff in the partial list with 0 < inuse < total,
\* FULL iff in the full list with inuse = total.
C3_StateMatchesList ==
    fault = "none" =>
        /\ \A b \in DOMAIN slabs :
              /\ Occurrences(c0.empty, b) + Occurrences(c0.partial, b)
                    + Occurrences(c0.full, b) = 1
              /\ slabs[b].state = "EMPTY"
                    <=> (InList(c0.empty, b) /\ slabs[b].inuse = 0)
              /\ slabs[b].state = "PARTIAL"
                    <=> (/\ InList(c0.partial, b)
                         /\ 0 < slabs[b].inuse
                         /\ slabs[b].inuse < slabs[b].total)
              /\ slabs[b].state = "FULL"
                    <=> (/\ InList(c0.full, b)
                         /\ slabs[b].inuse = slabs[b].total)
        /\ \A i \in 1..Len(c0.empty) : c0.empty[i] \in DOMAIN slabs
        /\ \A i \in 1..Len(c0.partial) : c0.partial[i] \in DOMAIN slabs
        /\ \A i \in 1..Len(c0.full) : c0.full[i] \in DOMAIN slabs

\* A free moved a slab from the full to the partial list, behind a slab that
\* was partial already.
C3_Witness ==
    /\ last.op = "free" /\ fault = "none"
    /\ slabs[slab_of(last.ptr)].state = "PARTIAL"
    /\ slabs[slab_of(last.ptr)].inuse = slabs[slab_of(last.ptr)].total - 1
    /\ Len(c0.partial) >= 2
    /\ ListBack(c0.partial) = slab_of(last.ptr)

\* C5 (as claimed): every pointer alloc returns is a multiple of the cache's
\* effective alignment, whatever (size, alignment) the cache was built from.
C5_AlignedAsClaimed ==
    (last.op = "alloc" /\ fault = "none") => last.ptr % c0.obj_align = 0

\* C6: once every pointer has been freed, the partial and the full list are
\* empty and every slab is EMPTY with inuse = 0.
C6_DrainedAllEmpty ==
    (fault = "none" /\ last.op = "free" /\ DOMAIN live = {}) =>
        /\ ListEmpty(c0.partial)
        /\ ListEmpty(c0.full)
        /\ \A b \in DOMAIN slabs :
              slabs[b].state = "EMPTY" /\ slabs[b].inuse = 0

\* The last of several objects in several slabs has been freed.
C6_Witness ==
    /\ fault = "none" /\ last.op = "free" /\ DOMAIN live = {}
    /\ Cardinality(DOMAIN slabs) >= 2
    /\ \E b \in DOMAIN slabs : slabs[b].total > 1

Now == Stats(c0, 0, slabs)

\* C9 (as claimed): p = alloc() then free(p) leaves the statistics as they
\* were before the alloc, in every state, a cache without a slab included.
C9_RoundTripAsClaimed ==
    (last.op = "free" /\ last.seq = 2 /\ fault = "none") => Now = last.pre

\* C9 (amended): the statistics return to their values when the alloc found
\* a slab in the partial or the empty list; when both lists were empty the
\* slab the alloc created stays, in the empty list: the empty count and the
\* slab count are one higher, the rest is as before.
C9_RoundTrip ==
    (last.op = "free" /\ last.seq = 2 /\ fault = "none") =>
        IF last.pre.partial = 0 /\ last.pre.empty = 0
        THEN Now = [last.pre EXCEPT !.empty = @ + 1, !.slabs = @ + 1]
        ELSE Now = last.pre

\* The pair ran on a cache with a partial slab and objects in use, and the
\* alloc filled that slab.
C9_Witness ==
    /\ last.op = "free" /\ last.seq = 2 /\ fault = "none"
    /\ last.pre.partial > 0
    /\ last.pre.empty > 0
    /\ last.pre.inuse > 0
    /\ slabs[slab_of(last.ptr)].inuse = slabs[slab_of(last.ptr)].total - 1

OneSlot == c0.obj_size = 2048 /\ c0.slab_bytes = 4096

\* C10: with one slot per slab (object size 2048, 4096-byte slab) a slab is
\* FULL after the alloc that serves from it and EMPTY after the free of its
\* object, never PARTIAL between calls; two live objects are different
\* pointers in different slabs; p = alloc(); free(p); q = alloc() gives q = p.
C10_SingleSlot ==
    (OneSlot /\ fault = "none") =>
        /\ \A b \in DOMAIN slabs : slabs[b].state # "PARTIAL"
        /\ last.op = "alloc" => slabs[slab_of(last.ptr)].state = "FULL"
        /\ last.op = "free" => slabs[slab_of(last.ptr)].state = "EMPTY"
        /\ \A p \in DOMAIN live : live[p].cnt = 1
        /\ \A p, q \in DOMAIN live : p # q => slab_of(p) # slab_of(q)
        /\ (last.op = "alloc" /\ last.seq = 3) => last.ptr = last.p0

\* alloc, free, alloc again while another object is live and a second empty
\* slab was there to choose from.
C10_Witness ==
    /\ OneSlot /\ fault = "none"
    /\ last.op = "alloc" /\ last.seq = 3
    /\ Len(c0.full) >= 2
    /\ ~ListEmpty(c0.empty)

\* C11: when free(p) leaves p's slab at the back of the partial list, the
\* alloc that follows returns p (last freed, first served within a slab).
C11_LastFreedFirst ==
    [][(/\ last.op = "free" /\ fault = "none"
        /\ ~ListEmpty(c0.partial)
        /\ ListBack(c0.partial) = slab_of(last.ptr)
        /\ last'.op = "alloc")
          => (fault' = "none" /\ last'.ptr = last.ptr)]_vars

\* free(p) moved p's full slab behind another partial slab, and the alloc
\* after it returned p from that slab, filling it again.
C11_Witness ==
    /\ last.op = "alloc" /\ last.seq = 3 /\ fault = "none"
    /\ last.ptr = last.p0
    /\ slabs[slab_of(last.ptr)].state = "FULL"
    /\ slabs[slab_of(last.ptr)].total >= 2
    /\ ~ListEmpty(c0.partial)

\* The least power of two that is at least x, and n rounded up to a multiple
\* of a.
NextPow2(x) == CHOOSE v \in {Pow2(i) : i \in 0..13} :
                  v >= x /\ \A w \in {Pow2(i) : i \in 0..13} : w >= x => v <= w

RoundUp(n, a) == ((n + a - 1) \div a) * a

\* The cache is the one the constructor builds from cfg.
BuiltFrom(cfg) ==
    [c0 EXCEPT !.partial = <<>>, !.full = <<>>, !.empty = <<>>]
        = SlubCache(cfg[1], cfg[2], PAGES_PER_SLAB)

\* C15 (as claimed): the constructor's obj_align is max(raw_obj_align,
\* pointer alignment) rounded up to a power of two, and its obj_size is
\* max(raw_obj_size, pointer size) rounded up to a multiple of obj_align.
C15_CtorAsClaimed ==
    \A cfg \in CacheCfgs :
        BuiltFrom(cfg) =>
            /\ c0.obj_align = NextPow2(Max(cfg[2], PtrAlign))
            /\ c0.obj_size = RoundUp(Max(cfg[1], PtrSize), c0.obj_align)

\* The first address at or after the SlabHeader of the slab at b that is a
\* multiple of the object alignment.
SlotRegion(b) ==
    CHOOSE a \in (b + SlabHeaderSize)..(b + SlabHeaderSize + c0.obj_align) :
        /\ a % c0.obj_align = 0
        /\ \A x \in (b + SlabHeaderSize)..(a - 1) : x % c0.obj_align # 0

InSlots(b, P) ==
    SlotRegion(b) <= P /\ P + c0.obj_size <= b + c0.slab_bytes

\* C16: the obj_size bytes of every pointer alloc returned lie in the slot
\* region of exactly one slab: from the first aligned address after the
\* header up to the end of the slab.
C16_InsideSlotRegion ==
    fault = "none" =>
        \A P \in DOMAIN live :
            Cardinality({b \in DOMAIN slabs : InSlots(b, P)}) = 1

\* alloc returned the slot that ends with its slab while the slab's first
\* slot is live too.
C16_Witness ==
    /\ last.op = "alloc" /\ fault = "none"
    /\ last.ptr + c0.obj_size = slab_of(last.ptr) + c0.slab_bytes
    /\ \E P \in DOMAIN live :
          P = SlotRegion(slab_of(last.ptr)) /\ P # last.ptr

\* C17 (as claimed): for slabs of 1, 2 or 4 pages free(p) finds the slab p
\* came from at p & ~(slab_bytes - 1), with the cache's own slab_bytes, makes
\* p the head of that slab's freelist and takes one off its inuse.
C17_FreeRecoversAsClaimed ==
    [][(last'.op = "free" /\ live' # live) =>
          LET b == align_down(last'.ptr, c0.slab_bytes)
          IN  /\ fault' = "none"
              /\ b \in DOMAIN slabs
              /\ slabs'[b].freelist = last'.ptr
              /\ slabs'[b].inuse = slabs[b].inuse - 1]_vars

\* C20: alloc serves from the back slab of the partial list when that list
\* is not empty, else from the back slab of the empty list, and calls
\* alloc_pages exactly when both lists are empty; the new slab is pushed to
\* the partial list (from where a one-slot slab goes on to the full list in
\* the same call) and never to the empty list.
C20_DonorOrder ==
    [][/\ (last'.op = "alloc" /\ (live' # live \/ fault' # fault)) =>
            ((last'.pcall.call = "alloc_pages")
                <=> (ListEmpty(c0.partial) /\ ListEmpty(c0.empty)))
       /\ (last'.op = "alloc" /\ live' # live) =>
            LET s  == slab_of(last'.ptr)
                c1 == caches'[0]
            IN  /\ ~ListEmpty(c0.partial) => s = ListBack(c0.partial)
                /\ (ListEmpty(c0.partial) /\ ~ListEmpty(c0.empty)) =>
                      /\ s = ListBack(c0.empty)
                      /\ c1.empty = ListErase(c0.empty, s)
                /\ (ListEmpty(c0.partial) /\ ListEmpty(c0.empty)) =>
                      /\ s = last'.pcall.ptr
                      /\ s \notin DOMAIN slabs
                      /\ c1.empty = <<>>
                      /\ IF slabs'[s].total = 1
                         THEN c1.full = ListPushBack(c0.full, s)
                         ELSE c1.partial = <<s>>]_vars

\* alloc served from the partial list while the empty list held a slab.
C20_Witness ==
    /\ last.op = "alloc" /\ fault = "none"
    /\ last.pre.partial >= 1
    /\ last.pre.empty >= 1
    /\ last.pcall = NoCall
    /\ ~ListEmpty(c0.empty)

\* C23: no alloc or free gives a slab back to the provider: the slabs of
\* the cache and the provider's outstanding blocks never get fewer, no call
\* is a free_pages, and a slab whose last object is freed is in the empty
\* list afterwards.
C23_SlabsNeverReturned ==
    [][/\ DOMAIN slabs \subseteq DOMAIN slabs'
       /\ blocks \subseteq blocks'
       /\ last'.pcall.call # "free_pages"
       /\ \A b \in DOMAIN slabs :
             (slabs[b].inuse > 0 /\ b \in DOMAIN slabs'
                 /\ slabs'[b].inuse = 0)
                => InList(caches'[0].empty, b)]_vars

\* A free emptied one of several slabs, and the slab is kept, with its block.
C23_Witness ==
    /\ last.op = "free" /\ fault = "none"
    /\ slabs[slab_of(last.ptr)].inuse = 0
    /\ ListBack(c0.empty) = slab_of(last.ptr)
    /\ Cardinality(DOMAIN slabs) >= 2
    /\ \A b \in DOMAIN slabs : \E k \in blocks : k.base = b

\* C25 (as claimed): the first alloc on a slab just initialised returns the
\* slot at the start of the slot region, the one of the lowest address.
C25_FirstSlotAsClaimed ==
    (last.op = "alloc" /\ fault = "none"
        /\ last.pcall.call = "alloc_pages") =>
        last.ptr = SlotRegion(slab_of(last.ptr))

\* C26: p = alloc(); free(p); q = alloc() gives q = p, whatever list the
\* first alloc took its slab from and whether or not it filled the slab.
C26_ReallocSame ==
    (last.op = "alloc" /\ last.seq = 3 /\ fault = "none") =>
        last.ptr = last.p0

\* The first alloc filled a slab that was partial, behind another partial
\* slab; the free brought it back and the second alloc returned the pointer.
C26_Witness ==
    /\ last.op = "alloc" /\ last.seq = 3 /\ fault = "none"
    /\ last.ptr = last.p0
    /\ last.pcall = NoCall
    /\ slabs[slab_of(last.ptr)].total >= 2
    /\ slabs[slab_of(last.ptr)].state = "FULL"
    /\ ~ListEmpty(c0.partial)
    /\ ~ListEmpty(c0.empty) \/ Len(c0.partial) + Len(c0.full) >= 2

\* C27 (as claimed): with a provider that never fails, the slab alloc
\* chooses has a freelist that is not null: the assertion holds and alloc
\* returns a pointer that is not null, whatever the object size.
C27_FreelistAsClaimed ==
    (last.op = "alloc"
        /\ ~(last.pcall.call = "alloc_pages" /\ last.pcall.ptr = NULL)) =>
        (fault = "none" /\ last.ptr # NULL)

\* Whether p is a slot of the slab at b: in the slot region, a whole number
\* of objects from its start, and inside the slab with all its bytes.
IsSlot(b, p) ==
    /\ b \in DOMAIN slabs
    /\ SlotRegion(b) <= p
    /\ (p - SlotRegion(b)) % c0.obj_size = 0
    /\ p + c0.obj_size <= b + c0.slab_bytes

\* C21 (as claimed): in the typed allocator every pointer alloc() returned
\* and every entry of a slab's freelist is a slot of its slab (the first
\* slot at the first aligned address after the header, each next one
\* obj_size further, all inside the slab), slab_of(p) being that slab, and a
\* slab's freelist and its pointers in use make up its total slots.
C21_TypedSlotsAsClaimed ==
    fault = "none" =>
        /\ \A P \in DOMAIN live : IsSlot(slab_of(P), P)
        /\ \A b \in DOMAIN slabs :
              /\ \A i \in 1..Len(ChainOf(b)) : IsSlot(b, ChainOf(b)[i])
              /\ Len(ChainOf(b)) + slabs[b].inuse = slabs[b].total

\* =================================================== claims: SlubAllocator
\* C4 (as claimed): free(p) takes the large path (calls free_pages) exactly
\* when p came from alloc(n) with n > kMax, whatever the client stored in its
\* objects; a pointer a cache served is pushed onto its slab's freelist.
C4_FreeRoutesAsClaimed ==
    last.op = "free" =>
        /\ (last.pcall.call = "free_pages") <=> (last.n > kMax)
        /\ last.n <= kMax =>
              /\ fault = "none"
              /\ slabs[slab_of(last.ptr)].freelist = last.ptr

\* The provider block an address lies in.
BlockOf(bl, p) ==
    CHOOSE b \in bl : b.base <= p /\ p < b.base + b.pages * PAGE_SIZE

InBlock(bl, p) ==
    \E b \in bl : b.base <= p /\ p < b.base + b.pages * PAGE_SIZE

\* C12: while a pointer P that alloc(n), n > kMax, returned is live, P is a
\* multiple of ALIGN and the header at P - sizeof(BigAllocatorHeader) holds
\* MAGIC, the page count asked of the provider and the address the provider
\* returned, which is at or below the header.
C12_BigHeader ==
    fault = "none" =>
        \A P \in DOMAIN live :
            live[P].n > kMax =>
                /\ P % ALIGN = 0
                /\ InBlock(blocks, P)
                /\ LET b   == BlockOf(blocks, P)
                       hdr == P - BigHeaderSize
                   IN  /\ Read(mem, hdr) = MAGIC
                       /\ Read(mem, hdr + 4) = b.pages
                       /\ ReadPtr(mem, hdr + 8) = [lo |-> b.base, hi |-> 0]
                       /\ b.base <= hdr
                       /\ (last.op = "alloc" /\ last.ptr = P) =>
                              /\ last.pcall.call = "alloc_pages"
                              /\ last.pcall.ptr = b.base
                              /\ last.pcall.pages = b.pages

\* A two-page object is live while another object was allocated and a third
\* freed after it.
C12_Witness ==
    /\ fault = "none" /\ last.op = "alloc"
    /\ \E P \in DOMAIN live :
          /\ live[P].n > kMax
          /\ P # last.ptr
          /\ BlockOf(blocks, P).pages = 2

\* A step that is the call op of the allocator.
Calls(op) == last'.op = op /\ (last' # last \/ live' # live)

C14_SizedFreeAsClaimed ==
    [][(Calls("free_sized") /\ last'.n > kMax) =>
          /\ fault' = "none"
          /\ InBlock(blocks, last'.ptr)
          /\ LET b == BlockOf(blocks, last'.ptr)
             IN  last'.pcall = [call |-> "free_pages", ptr |-> b.base,
                                pages |-> b.pages]]_vars

\* C18: the three frees of a null pointer return without fault and leave
\* the lists, the slab headers, memory and the provider's blocks as they were.
C18_FreeNull ==
    [][(last'.op \in {"cache_free_null", "free_null", "free_sized_null"}) =>
          /\ fault' = "none"
          /\ caches' = caches
          /\ slabs' = slabs
          /\ mem' = mem
          /\ blocks' = blocks]_vars

\* A null pointer was freed while a slab was full and a large block out.
C18_Witness ==
    /\ last.op \in {"cache_free_null", "free_null", "free_sized_null"}
    /\ fault = "none"
    /\ \E b \in DOMAIN slabs : slabs[b].state = "FULL"
    /\ \E P \in DOMAIN live : live[P].n > kMax

\* The least number of pages that hold size bytes.
CeilPages(size) ==
    CHOOSE k \in 1..8 :
        k * PAGE_SIZE >= size /\ (k - 1) * PAGE_SIZE < size

\* C19: for a type with obj_size_ > kMax, alloc() returns what one call
\* alloc_pages(ceil(obj_size_ / PAGE_SIZE)) returned (a page-aligned block
\* when it is one page), free(p) calls free_pages(p) and that block is
\* outstanding no longer, and the three lists stay empty.
C19_TypedLarge ==
    [][/\ Calls("alloc") =>
            /\ fault' = "none"
            /\ last'.pcall = [call |-> "alloc_pages", ptr |-> last'.ptr,
                              pages |-> CeilPages(c0.obj_size)]
            /\ last'.ptr # NULL =>
                  /\ blocks' = blocks \cup
                        {[base |-> last'.ptr, pages |-> last'.pcall.pages]}
                  /\ last'.ptr \notin {b.base : b \in blocks}
                  /\ last'.pcall.pages = 1 => last'.ptr % PAGE_SIZE = 0
       /\ Calls("free") =>
            /\ fault' = "none"
            /\ last'.pcall.call = "free_pages"
            /\ last'.pcall.ptr = last'.ptr
            /\ blocks' = {b \in blocks : b.base # last'.ptr}
            /\ blocks' # blocks
       /\ caches' = caches
       /\ ListEmpty(caches'[0].empty)
       /\ ListEmpty(caches'[0].partial)
       /\ ListEmpty(caches'[0].full)
       /\ slabs' = <<>>]_vars

\* A block of a large type was freed while another was outstanding.
C19_Witness ==
    /\ last.op = "free" /\ fault = "none"
    /\ last.pcall.call = "free_pages"
    /\ c0.obj_size > kMax
    /\ blocks # {}

\* C7 (as claimed): when alloc_pages returns null, alloc returns null and
\* leaves the lists and every slab header as they were.
C7_OomAsClaimed ==
    [][(/\ last'.op = "alloc"
        /\ last'.pcall.call = "alloc_pages"
        /\ last'.pcall.ptr = NULL)
          => (/\ fault' = "none"
              /\ last'.ptr = NULL
              /\ caches' = caches
              /\ slabs' = slabs)]_vars

\* The least i in 0..8 with 8 * 2^i >= max(n, 8).
SmallestClass(n) ==
    CHOOSE i \in 0..(kNum - 1) :
        /\ 8 * Pow2(i) >= Max(n, 8)
        /\ \A j \in 0..(i - 1) : 8 * Pow2(j) < Max(n, 8)

\* C8: alloc(n) with n <= 2048 is served by the cache of the least class
\* that holds max(n, 8) bytes (0..8 by class 0, 2048 by class 8) and by no
\* other; with n >= 2049 it takes the large path and touches no cache.
C8_Routing ==
    (last.op = "alloc" /\ fault = "none") =>
        IF last.n <= kMax
        THEN LET i == SmallestClass(last.n)
                 s == slab_of(last.ptr)
             IN  /\ last.n <= 8 => i = 0
                 /\ last.n = kMax => i = kNum - 1
                 /\ s \in DOMAIN slabs
                 /\ slabs[s].owner_cache = i
                 /\ slabs[s].inuse = 1
                 /\ InList(caches[i].partial, s) \/ InList(caches[i].full, s)
                 /\ \A j \in 0..(kNum - 1) :
                       j # i => caches[j] = AllocatorCaches[j]
        ELSE /\ caches = AllocatorCaches
             /\ slabs = <<>>
             /\ last.pcall.call = "alloc_pages"
             /\ blocks # {}

\* A request of exactly kMax bytes was served by the last cache.
C8_Witness ==
    /\ last.op = "alloc" /\ fault = "none"
    /\ last.n = kMax
    /\ slabs[slab_of(last.ptr)].owner_cache = kNum - 1
    /\ slabs[slab_of(last.ptr)].state = "FULL"

\* The memory cells a step changes.
Changed == {a \in DOMAIN mem \cup DOMAIN mem' : Read(mem', a) # Read(mem, a)}

\* Cache j, its slab headers and the memory of its slabs are unchanged.
Frame(j) ==
    /\ caches'[j] = caches[j]
    /\ \A b \in OwnedBy(slabs, j) :
          /\ b \in DOMAIN slabs'
          /\ slabs'[b] = slabs[b]
          /\ \A a \in Changed : a < b \/ a >= b + caches[j].slab_bytes

\* C28: an alloc(n) or a free of a pointer of size class i leaves the
\* lists, the slab headers and the freelists of every class j # i as they
\* were; a call on the large path leaves those of every class.
C28_OtherClassesUnchanged ==
    [][(Calls("alloc") \/ Calls("free") \/ Calls("free_sized")) =>
          LET i == IF last'.n > kMax THEN kNum ELSE SmallestClass(last'.n)
          IN  \A j \in 0..(kNum - 1) \ {i} : Frame(j)]_vars

\* A pointer of one class was freed while a slab of another class had
\* objects in use, and its own class's slab changed.
C28_Witness ==
    /\ last.op \in {"free", "free_sized"} /\ fault = "none"
    /\ last.n <= kMax
    /\ slabs[slab_of(last.ptr)].owner_cache = SmallestClass(last.n)
    /\ slabs[slab_of(last.ptr)].freelist = last.ptr
    /\ \E b \in DOMAIN slabs :
          /\ slabs[b].owner_cache # SmallestClass(last.n)
          /\ slabs[b].inuse > 0

\* C22 (as claimed): every slab's owner_cache is the cache of the class
\* that serves its objects, and for every live pointer of a small request
\* free(p) and free(p, n) have the same outcome: the same lists, slab
\* headers and freelists.
C22_FreesAgreeAsClaimed ==
    fault = "none" =>
        \A p \in DOMAIN live :
            live[p].n <= kMax =>
                /\ slabs[slab_of(p)].owner_cache = SmallestClass(live[p].n)
                /\ alloc_free(caches, slabs, mem, blocks, p)
                      = alloc_free_sized(caches, slabs, mem, blocks, p,
                                         live[p].n)

\* ceil((n + sizeof(BigAllocatorHeader) + ALIGN - 1) / PAGE_SIZE) of a
\* size_t n, in five limbs.
CeilPagesWide(w) ==
    DivPage(AddFull(w, (BigHeaderSize + ALIGN - 1) + PAGE_SIZE - 1))

\* C24 (as claimed): for every size_t n > kMax the large path asks the
\* provider for ceil((n + sizeof(BigAllocatorHeader) + ALIGN - 1) /
\* PAGE_SIZE) pages, and when a pointer is returned the n bytes from it on
\* end at or before the end of the block: n + 16 <= pages * PAGE_SIZE.
C24_PagesAsClaimed ==
    (last.op = "alloc" /\ last.pcall.call = "alloc_pages") =>
        LET n  == last.n
            pw == last.pcall.pages
        IN  /\ <<pw[1], pw[2], 0, 0, 0>> = CeilPagesWide(n)
            /\ fault = "none" =>
                  WideLeq(AddFull(n, BigHeaderSize), MulPage(pw))

====
